---- MODULE Spec2Model ----
(***************************************************************************)
(* Model of the execution pipeline of code-executor (src/executor):        *)
(* Executor::call chains  build_tar -> ImageBuilder::build_on ->           *)
(* BuildMessages (fold over Transform) -> ContainerBuilder::build_on ->    *)
(* Docker::start_container -> Docker::logs -> Logs (fold to stdout/stderr).*)
(*                                                                         *)
(* Text is a sequence of one-character strings; log bytes are integers.    *)
(* A build record  {"stream":"<text>"}  is written on the wire as the      *)
(* bytes  "{" "S" <text> "}",  {"errorDetail":..,"error":..}  as "{" "E"   *)
(* "}", a JSON object of any other shape as "{" "U" "}": the braces        *)
(* delimit one JSON value, the byte after "{" stands for its keys.         *)
(***************************************************************************)
EXTENDS Integers, Sequences, FiniteSets, TLC

\* ------------------------------------------------------------------ bounds

\* the streams of a whole request (Spec): most build records, most log frames,
\* longest log payload
PipeRecs == 1
PipeFrames == 1
PipePayload == 1
\* the streams of the decoders alone (SpecStreams)
MaxRecs == 2
MaxFrames == 2
MaxPayload == 2
\* most build messages folded by the extractor alone (SpecFold)
MaxEvents == 3

\* ------------------------------------------------------------ text helpers

CR == "\r"
LF == "\n"

IsWs(c) == c \in {" ", "\t", "\r", "\n"}

\* str::starts_with
StartsWith(s, p) ==
  /\ Len(s) >= Len(p)
  /\ SubSeq(s, 1, Len(p)) = p

\* str::contains
Contains(s, p) ==
  \E i \in 1..(Len(s) - Len(p) + 1) : SubSeq(s, i, i + Len(p) - 1) = p

\* positions of ":" in s
Colons(s) == {i \in 1..Len(s) : s[i] = ":"}

Min(S) == CHOOSE x \in S : \A y \in S : x <= y

\* str::trim_right: drop trailing whitespace
RECURSIVE TrimRight(_)
TrimRight(s) ==
  IF s = <<>> THEN s
  ELSE IF IsWs(s[Len(s)]) THEN TrimRight(SubSeq(s, 1, Len(s) - 1))
  ELSE s

\* stream.split(":").skip(1).next(): the piece between the first ":" and the
\* next ":" (or the end); None when the text holds no ":"
SecondPiece(s) ==
  IF Colons(s) = {} THEN [some |-> FALSE, v |-> <<>>]
  ELSE LET a == Min(Colons(s))
           later == {i \in Colons(s) : i > a}
           b == IF later = {} THEN Len(s) + 1 ELSE Min(later)
       IN [some |-> TRUE, v |-> SubSeq(s, a + 1, b - 1)]

SHA256 == <<"s", "h", "a", "2", "5", "6">>
STEP == <<"S", "t", "e", "p">>
DASHES == <<"-", "-", "-">>

\* -------------------------------------------------- the result extractor

\* enum Transform { Id(String), Error(String), Empty }
TId(s) == [k |-> "Id", s |-> s]
TError(s) == [k |-> "Error", s |-> s]
TEmpty == [k |-> "Empty", s |-> <<>>]
\* the fold closure panicked (unwrap on None)
TPanic == [k |-> "Panic", s |-> <<>>]

\* enum Message { Stream { stream }, ErrorDetail { .. } } of executor/image.rs
MStream(s) == [k |-> "Stream", stream |-> s]
MErrorDetail == [k |-> "ErrorDetail", stream |-> <<>>]

\* a fold closure that forgets the id when compiler output follows it
FoldLosesId(last_step, msg) ==
  IF msg.k = "ErrorDetail" THEN last_step
  ELSE IF StartsWith(msg.stream, SHA256)
       THEN LET p == SecondPiece(msg.stream)
            IN IF p.some THEN TId(TrimRight(p.v)) ELSE TPanic
  ELSE IF Contains(msg.stream, STEP)
       THEN IF last_step.k = "Id" THEN last_step ELSE TEmpty
  ELSE IF Contains(msg.stream, DASHES) THEN last_step
  ELSE IF last_step.k = "Error" THEN TError(msg.stream \o last_step.s)
  ELSE TError(msg.stream)

\* a fold closure that starts over at a cache-hint line
FoldCacheResets(last_step, msg) ==
  IF msg.k = "ErrorDetail" THEN last_step
  ELSE IF StartsWith(msg.stream, SHA256)
       THEN LET p == SecondPiece(msg.stream)
            IN IF p.some THEN TId(TrimRight(p.v)) ELSE TPanic
  ELSE IF Contains(msg.stream, STEP)
       THEN IF last_step.k = "Id" THEN last_step ELSE TEmpty
  ELSE IF Contains(msg.stream, DASHES) THEN TEmpty
  ELSE IF last_step.k = "Id" THEN last_step
  ELSE IF last_step.k = "Empty" THEN TError(msg.stream)
  ELSE TError(msg.stream \o last_step.s)

\* a fold closure that puts later compiler output after the earlier
FoldAppendsError(last_step, msg) ==
  IF msg.k = "ErrorDetail" THEN last_step
  ELSE IF StartsWith(msg.stream, SHA256)
       THEN LET p == SecondPiece(msg.stream)
            IN IF p.some THEN TId(TrimRight(p.v)) ELSE TPanic
  ELSE IF Contains(msg.stream, STEP)
       THEN IF last_step.k = "Id" THEN last_step ELSE TEmpty
  ELSE IF Contains(msg.stream, DASHES) THEN last_step
  ELSE IF last_step.k = "Id" THEN last_step
  ELSE IF last_step.k = "Empty" THEN TError(msg.stream)
  ELSE TError(last_step.s \o msg.stream)

\* the closure given to fold(Transform::Empty, ..)
Fold(last_step, msg) ==
  IF msg.k = "ErrorDetail" THEN last_step
  ELSE IF StartsWith(msg.stream, SHA256)
       THEN LET p == SecondPiece(msg.stream)
            IN IF p.some THEN TId(TrimRight(p.v)) ELSE TPanic
  ELSE IF Contains(msg.stream, STEP)
       THEN IF last_step.k = "Id" THEN last_step ELSE TEmpty
  ELSE IF Contains(msg.stream, DASHES) THEN last_step
  ELSE IF last_step.k = "Id" THEN last_step
  ELSE IF last_step.k = "Empty" THEN TError(msg.stream)
  ELSE TError(msg.stream \o last_step.s)

\* ------------------------------------------------ results of the pipeline

\* Result<Output, ExecutionError>, or a panic of the task; "none" while pending.
\* t: the variant; d: the DockerError inside DockerError(..); a, b: its texts
RNone == [k |-> "none", t |-> "", d |-> "", a |-> <<>>, b |-> <<>>]
ROk(t, a, b) == [k |-> "Ok", t |-> t, d |-> "", a |-> a, b |-> b]
RErr(t, d, a) == [k |-> "Err", t |-> t, d |-> d, a |-> a, b |-> <<>>]
RPanic == [k |-> "Panic", t |-> "", d |-> "", a |-> <<>>, b |-> <<>>]

\* a terminal mapping that lets compile-error text through as an image id
TerminalMapErrorAsId(msg) ==
  IF msg.k = "Empty" THEN RPanic ELSE ROk("Id", msg.s, <<>>)

\* .and_then(|msg| match msg { Error => err(CompileError), Empty => unreachable!(), Id => ok })
TerminalMap(msg) ==
  IF msg.k = "Error" THEN RErr("CompileError", "", msg.s)
  ELSE IF msg.k = "Empty" THEN RPanic
  ELSE ROk("Id", msg.s, <<>>)

\* a final mapping that turns every error into a compile error
ThenAllErrorsAsOutput(res) ==
  IF res.k = "Err" THEN ROk("CompileError", res.a, <<>>) ELSE res

\* .then(|result| ..): CompileError(msg) becomes Ok(Output::CompileError)
Then(res) ==
  IF res.k = "Err" /\ res.t = "CompileError" THEN ROk("CompileError", res.a, <<>>)
  ELSE res

\* ------------------------------------------------ the build-progress decoder

\* outcomes of hyper::Body::poll
UpNotReady == [k |-> "NotReady", chunk |-> <<>>]
UpChunk(c) == [k |-> "Chunk", chunk |-> c]
UpEnd == [k |-> "End", chunk |-> <<>>]
UpErr == [k |-> "Err", chunk |-> <<>>]

\* what a body whose undelivered bytes are wire can answer to one poll: nothing
\* yet, any non-empty prefix of the bytes, the end of the stream (the engine may
\* close the connection at any point), or a transport error
UpOutcomes(wire) ==
  {UpNotReady, UpEnd, UpErr} \cup {UpChunk(SubSeq(wire, 1, n)) : n \in 1..Len(wire)}

FirstNonWs(buf) ==
  LET S == {i \in 1..Len(buf) : ~IsWs(buf[i])}
  IN IF S = {} THEN Len(buf) + 1 ELSE Min(S)

NmNone(buf) == [k |-> "None", msg |-> MErrorDetail, rest |-> buf]
NmErr(buf) == [k |-> "Err", msg |-> MErrorDetail, rest |-> buf]
NmSome(m, rest) == [k |-> "Some", msg |-> m, rest |-> rest]

\* a next_message that does not remove the bytes of the message from buf
NextMessageKeepsBytes(buf) ==
  LET i == FirstNonWs(buf)
      closes == {j \in (i + 1)..Len(buf) : buf[j] = "}"}
  IN IF i > Len(buf) THEN NmNone(buf)
     ELSE IF buf[i] # "{" \/ closes = {} THEN NmErr(buf)
     ELSE LET j == Min(closes)
              body == SubSeq(buf, i + 1, j - 1)
          IN IF body # <<>> /\ body[1] = "S" THEN NmSome(MStream(Tail(body)), buf)
             ELSE IF body = <<"E">> THEN NmSome(MErrorDetail, buf)
             ELSE NmErr(buf)

\* BuildMessages::next_message: one value of serde_json's StreamDeserializer.
\* Leading whitespace is skipped; a buffer of whitespace alone gives None and
\* keeps buf; a value not yet closed, bytes that start no value and an object of
\* unknown shape give Err; a message gives Some and buf.split_off(byte_offset)
NextMessage(buf) ==
  LET i == FirstNonWs(buf)
      closes == {j \in (i + 1)..Len(buf) : buf[j] = "}"}
  IN IF i > Len(buf) THEN NmNone(buf)
     ELSE IF buf[i] # "{" \/ closes = {} THEN NmErr(buf)
     ELSE LET j == Min(closes)
              body == SubSeq(buf, i + 1, j - 1)
              rest == SubSeq(buf, j + 1, Len(buf))
          IN IF body # <<>> /\ body[1] = "S" THEN NmSome(MStream(Tail(body)), rest)
             ELSE IF body = <<"E">> THEN NmSome(MErrorDetail, rest)
             ELSE NmErr(buf)

\* the literal r"\r\n" of the finished branch: four characters
RawCRLF == <<"\\", "r", "\\", "n">>
CRLF == <<CR, LF>>

PollRet(buf, finished, ret, msg, polled) ==
  [buf |-> buf, finished |-> finished, ret |-> ret, msg |-> msg, polled |-> polled]

\* BuildMessages::poll. up is what self.body.poll() answers if it is called;
\* polled tells whether it was called
BuildPoll(buf, finished, up) ==
  IF finished
  THEN IF buf = RawCRLF THEN PollRet(buf, finished, "None", MErrorDetail, FALSE)
       ELSE LET nm == NextMessage(buf)
            IN IF nm.k = "Some" THEN PollRet(nm.rest, finished, "Some", nm.msg, FALSE)
               ELSE IF nm.k = "Err" THEN PollRet(buf, finished, "Err", MErrorDetail, FALSE)
               ELSE PollRet(buf, finished, "None", MErrorDetail, FALSE)
  ELSE IF up.k = "NotReady" THEN PollRet(buf, finished, "NotReady", MErrorDetail, TRUE)
  ELSE IF up.k = "Err" THEN PollRet(buf, finished, "Err", MErrorDetail, TRUE)
  ELSE LET buf1 == buf \o up.chunk
           fin1 == (up.k = "End")
           nm == NextMessage(buf1)
       IN IF nm.k = "Some" THEN PollRet(nm.rest, fin1, "Some", nm.msg, TRUE)
          ELSE IF buf1 = CRLF THEN PollRet(buf1, fin1, "None", MErrorDetail, TRUE)
          ELSE PollRet(buf1, fin1, "NotReady", MErrorDetail, TRUE)

\* ------------------------------------------------------ the log-frame decoder

\* enum State { Head, Body(Header) }
SHead == [k |-> "Head", log_type |-> "", size |-> 0]
SBody(h) == [k |-> "Body", log_type |-> h.log_type, size |-> h.size]

\* a read_u32 that takes the lowest byte first
ReadU32LittleEndian(b) == b[4] * 16777216 + b[3] * 65536 + b[2] * 256 + b[1]

\* BigEndian::read_u32
ReadU32(b) == b[1] * 16777216 + b[2] * 65536 + b[3] * 256 + b[4]

\* Header::new(bytes); bad marks the unreachable!() arm
HeaderNew(bytes) ==
  [log_type |-> IF bytes[1] = 0 THEN "Stdin"
                ELSE IF bytes[1] = 1 THEN "Stdout"
                ELSE IF bytes[1] = 2 THEN "Stderr"
                ELSE "",
   size |-> ReadU32(SubSeq(bytes, 5, 8)),
   bad |-> bytes[1] \notin {0, 1, 2}]

\* String::from_utf8 succeeds; the payload bytes of the model are ASCII or the
\* byte 255, which no UTF-8 text holds
FromUtf8Ok(bytes) == \A i \in 1..Len(bytes) : bytes[i] < 128

\* enum Message { Stdout(String), Stderr(String), Stdin(String) } of executor/log.rs
LMsg(t, s) == [t |-> t, s |-> s]
LNoMsg == [t |-> "", s |-> <<>>]

LRet(st, buf, ret, msg) == [state |-> st, buf |-> buf, ret |-> ret, msg |-> msg]

\* a header read that leaves the eight header bytes in the buffer
ReadHeadKeepsHeader(buf) ==
  LET h == HeaderNew(SubSeq(buf, 1, 8))
  IN IF h.bad THEN LRet(SHead, buf, "Panic", LNoMsg)
     ELSE LRet(SBody(h), buf, "cont", LNoMsg)

\* split_to(8) and Header::new, then State::Body: the loop goes round again
ReadHead(buf) ==
  LET h == HeaderNew(SubSeq(buf, 1, 8))
      rest == SubSeq(buf, 9, Len(buf))
  IN IF h.bad THEN LRet(SHead, rest, "Panic", LNoMsg)
     ELSE LRet(SBody(h), rest, "cont", LNoMsg)

\* a Logs::poll that takes an idle upstream and an empty buffer for the end
LogsIterEndsWhenIdle(st, buf, up) ==
  IF up.k = "Err" THEN LRet(st, buf, "Err", LNoMsg)
  ELSE LET buf1 == buf \o up.chunk
           finished == (up.k = "End")
           not_ready == (up.k = "NotReady")
       IN IF st.k = "Head"
          THEN IF finished \/ (not_ready /\ Len(buf1) = 0)
               THEN IF Len(buf1) = 0 THEN LRet(st, buf1, "None", LNoMsg)
                    ELSE IF Len(buf1) > 8 THEN ReadHead(buf1)
                    ELSE LRet(st, buf1, "Err", LNoMsg)
               ELSE IF not_ready THEN LRet(st, buf1, "NotReady", LNoMsg)
               ELSE IF Len(buf1) < 8 THEN LRet(st, buf1, "cont", LNoMsg)
               ELSE ReadHead(buf1)
          ELSE IF Len(buf1) >= st.size
               THEN LET bytes == SubSeq(buf1, 1, st.size)
                        rest == SubSeq(buf1, st.size + 1, Len(buf1))
                    IN IF FromUtf8Ok(bytes)
                       THEN LRet(SHead, rest, "Some", LMsg(st.log_type, bytes))
                       ELSE LRet(st, rest, "Panic", LNoMsg)
               ELSE IF not_ready THEN LRet(st, buf1, "NotReady", LNoMsg)
               ELSE LRet(st, buf1, "cont", LNoMsg)

\* a Logs::poll that takes the end of the stream in Head with an empty buffer
\* for an error
LogsIterErrsOnEnd(st, buf, up) ==
  IF up.k = "Err" THEN LRet(st, buf, "Err", LNoMsg)
  ELSE LET buf1 == buf \o up.chunk
           finished == (up.k = "End")
           not_ready == (up.k = "NotReady")
       IN IF st.k = "Head"
          THEN IF finished
               THEN IF Len(buf1) = 0 THEN LRet(st, buf1, "Err", LNoMsg)
                    ELSE IF Len(buf1) > 8 THEN ReadHead(buf1)
                    ELSE LRet(st, buf1, "Err", LNoMsg)
               ELSE IF not_ready THEN LRet(st, buf1, "NotReady", LNoMsg)
               ELSE IF Len(buf1) < 8 THEN LRet(st, buf1, "cont", LNoMsg)
               ELSE ReadHead(buf1)
          ELSE IF Len(buf1) >= st.size
               THEN LET bytes == SubSeq(buf1, 1, st.size)
                        rest == SubSeq(buf1, st.size + 1, Len(buf1))
                    IN IF FromUtf8Ok(bytes)
                       THEN LRet(SHead, rest, "Some", LMsg(st.log_type, bytes))
                       ELSE LRet(st, rest, "Panic", LNoMsg)
               ELSE IF not_ready THEN LRet(st, buf1, "NotReady", LNoMsg)
               ELSE LRet(st, buf1, "cont", LNoMsg)

\* one turn of the loop of Logs::poll, up being what self.body.poll() answers.
\* ret is "cont" when the loop goes round again, else what poll returns
LogsIter(st, buf, up) ==
  IF up.k = "Err" THEN LRet(st, buf, "Err", LNoMsg)
  ELSE LET buf1 == buf \o up.chunk
           finished == (up.k = "End")
           not_ready == (up.k = "NotReady")
       IN IF st.k = "Head"
          THEN IF finished
               THEN IF Len(buf1) = 0 THEN LRet(st, buf1, "None", LNoMsg)
                    ELSE IF Len(buf1) > 8 THEN ReadHead(buf1)
                    ELSE LRet(st, buf1, "Err", LNoMsg)
               ELSE IF not_ready THEN LRet(st, buf1, "NotReady", LNoMsg)
               ELSE IF Len(buf1) < 8 THEN LRet(st, buf1, "cont", LNoMsg)
               ELSE ReadHead(buf1)
          ELSE IF Len(buf1) >= st.size
               THEN LET bytes == SubSeq(buf1, 1, st.size)
                        rest == SubSeq(buf1, st.size + 1, Len(buf1))
                    IN IF FromUtf8Ok(bytes)
                       THEN LRet(SHead, rest, "Some", LMsg(st.log_type, bytes))
                       ELSE LRet(st, rest, "Panic", LNoMsg)
               ELSE IF not_ready THEN LRet(st, buf1, "NotReady", LNoMsg)
               ELSE LRet(st, buf1, "cont", LNoMsg)

\* what one Logs::poll of docker/log.rs leaves and returns
DRet(finished, st, buf, ret, msg) ==
  [finished |-> finished, state |-> st, buf |-> buf, ret |-> ret, msg |-> msg]

\* docker/log.rs: can_read_head and read_head, then can_read_body and
\* read_body, as both branches of Logs::poll run them. read_body leaves the
\* state as it is, Body(header). ret is "cont" when no message was read
DockerRead(finished, st, buf) ==
  LET can_head == (st.k = "Head" /\ Len(buf) >= 8)
      h == HeaderNew(SubSeq(buf, 1, 8))
      st1 == IF can_head THEN SBody(h) ELSE st
      buf1 == IF can_head THEN SubSeq(buf, 9, Len(buf)) ELSE buf
      can_body == (st1.k = "Body" /\ Len(buf1) >= st1.size)
      bytes == SubSeq(buf1, 1, st1.size)
  IN IF can_head /\ h.bad THEN DRet(finished, st, buf1, "Panic", LNoMsg)
     ELSE IF ~can_body THEN DRet(finished, st1, buf1, "cont", LNoMsg)
     ELSE IF ~FromUtf8Ok(bytes) THEN DRet(finished, st1, buf1, "Panic", LNoMsg)
     ELSE DRet(finished, st1, SubSeq(buf1, st1.size + 1, Len(buf1)), "Some",
               LMsg(st1.log_type, bytes))

\* Logs::poll of docker/log.rs, up being what self.body.poll() answers when it
\* is called (it is not once finished is set)
DockerPoll(finished, st, buf, up) ==
  IF finished
  THEN IF buf = <<>> THEN DRet(finished, st, buf, "None", LNoMsg)
       ELSE LET r == DockerRead(finished, st, buf)
            IN IF r.ret = "cont" THEN [r EXCEPT !.ret = "None"] ELSE r
  ELSE IF up.k = "Err" THEN DRet(finished, st, buf, "Err", LNoMsg)
  ELSE LET r == DockerRead(up.k = "End", st, buf \o up.chunk)
       IN IF r.ret # "cont" THEN r
          ELSE IF r.finished /\ r.buf = <<>> THEN [r EXCEPT !.ret = "None"]
          ELSE [r EXCEPT !.ret = "NotReady"]

\* a closure that puts each message before what was gathered
LogFoldPrepends(a, msg) ==
  IF msg.t = "Stdout" THEN [stdout |-> msg.s \o a.stdout, stderr |-> a.stderr]
  ELSE IF msg.t = "Stderr" THEN [stdout |-> a.stdout, stderr |-> msg.s \o a.stderr]
  ELSE a

\* the closure of the fold over the log messages
LogFold(acc, msg) ==
  IF msg.t = "Stdout" THEN [stdout |-> acc.stdout \o msg.s, stderr |-> acc.stderr]
  ELSE IF msg.t = "Stderr" THEN [stdout |-> acc.stdout, stderr |-> acc.stderr \o msg.s]
  ELSE acc

\* ------------------------------------------------- the container-engine client

\* status 0 stands for a transport failure (no response)
BuildStatuses == {0, 200, 400, 500}
CreateStatuses == {0, 201, 400, 404, 406, 500}
StartStatuses == {0, 204, 304, 404, 500}
LogsStatuses == {0, 101, 200, 404, 500}

\* bodies of a create response: an object whose Id is a string, an object whose
\* Id is no string, an object without Id, and bytes that are no JSON object
CreateBodies == {"IdStr", "IdOther", "NoId", "NotObject"}
ContainerIds == {<<"c", "1">>, <<"c", "2">>}

\* ImageBuilder::build_on: the DockerError of a response, "" for none
BuildOutcome(status) ==
  IF status = 0 THEN "HyperError"
  ELSE IF status = 200 THEN ""
  ELSE IF status = 400 THEN "BadRequest"
  ELSE "InternalServerError"

\* ContainerBuilder::build_on: "" for Ok(id), "Panic" for expect/unwrap on None
CreateOutcome(status, body) ==
  IF status = 0 THEN "HyperError"
  ELSE IF body = "NotObject" THEN "UnknownError"
  ELSE IF status = 201 THEN (IF body = "IdStr" THEN "" ELSE "Panic")
  ELSE IF status = 406 THEN "CantAttach"
  ELSE IF status \in {404, 400} THEN "BadRequest"
  ELSE "InternalServerError"

\* a start_container that takes 404 for a success
StartOutcomeIgnoresNotFound(status) ==
  IF status = 0 THEN "HyperError"
  ELSE IF status \in {204, 304, 404} THEN ""
  ELSE "InternalServerError"

\* a start_container that has no arm for an unexpected status
StartOutcomePanicsOnOther(status) ==
  IF status = 0 THEN "HyperError"
  ELSE IF status \in {204, 304} THEN ""
  ELSE IF status = 404 THEN "NotFound"
  ELSE "Panic"

\* Docker::start_container
StartOutcome(status) ==
  IF status = 0 THEN "HyperError"
  ELSE IF status \in {204, 304} THEN ""
  ELSE IF status = 404 THEN "NotFound"
  ELSE "InternalServerError"

\* Docker::logs
LogsOutcome(status) ==
  IF status = 0 THEN "HyperError"
  ELSE IF status \in {200, 101} THEN ""
  ELSE IF status = 404 THEN "NotFound"
  ELSE "InternalServerError"

\* ------------------------------------------------- what the engine may send

ShaA == SHA256 \o <<":", "a", LF>>
ShaB == SHA256 \o <<":", "b">>
StepLine == STEP \o <<" ", "1">>
CacheLine == DASHES \o <<">">>
OutX == <<"x">>
OutY == <<"y">>
\* a progress line that shows an image id after an arrow: "---> sha256:a\n"
DashShaLine == DASHES \o <<">", " ">> \o ShaA

\* one record of a build stream: a stream line, an errorDetail, or a JSON
\* object of another shape
RecS(text) == [k |-> "S", text |-> text]
RecE == [k |-> "E", text |-> <<>>]
RecU == [k |-> "U", text |-> <<>>]
Lines == {ShaA, ShaB, StepLine, CacheLine, DashShaLine, OutX, OutY}
RecKinds == {RecS(t) : t \in Lines} \cup {RecE, RecU}
\* short records, for the decoders alone
ShortRecKinds == {RecS(ShaA), RecS(OutX), RecS(OutY), RecE, RecU}
\* the message a record decodes to
RecMsg(r) == IF r.k = "S" THEN MStream(r.text) ELSE MErrorDetail

SeqsUpTo(S, n) == UNION {[1..m -> S] : m \in 0..n}

EncRec(r) == <<"{", r.k>> \o r.text \o <<"}">>

\* the bytes of the records, "\r\n" after each ("each"), between two
\* ("between") or nowhere ("none")
RECURSIVE BuildWire(_, _)
BuildWire(recs, sep) ==
  IF recs = <<>> THEN <<>>
  ELSE EncRec(Head(recs))
         \o (IF sep = "each" \/ (sep = "between" /\ Len(recs) > 1) THEN CRLF ELSE <<>>)
         \o BuildWire(Tail(recs), sep)

SepModes == {"none", "between", "each"}

\* a log frame: tag (0 stdin, 1 stdout, 2 stderr) and payload
Tags == {0, 1, 2}
Payload(n) == [i \in 1..n |-> 96 + i]
\* the frames with an empty payload, one of maxp bytes, or the one byte "x"
Frames(maxp) ==
  {[tag |-> t, payload |-> p] : t \in Tags, p \in {Payload(0), Payload(maxp), <<120>>}}

U32Bytes(n) ==
  <<(n \div 16777216) % 256, (n \div 65536) % 256, (n \div 256) % 256, n % 256>>

\* the 8-byte header and the payload of a frame
EncFrame(f) == <<f.tag, 0, 0, 0>> \o U32Bytes(Len(f.payload)) \o f.payload

\* the frames of the log stream of a whole request: those above and a stdout
\* frame whose payload is the byte 255, which is no UTF-8 text
PipeFrameKinds == Frames(PipePayload) \cup {[tag |-> 1, payload |-> <<255>>]}

RECURSIVE LogWire(_)
LogWire(frames) ==
  IF frames = <<>> THEN <<>> ELSE EncFrame(Head(frames)) \o LogWire(Tail(frames))

\* ------------------------------------------------------------------- state

VARIABLES
  pc,          \* where the request's future chain stands
  task,        \* "run": being polled; "wait": parked, the upstream will notify it;
               \* "stall": parked after a NotReady that registered no wake-up
  ops,         \* the operations issued for the request, in order, with their argument
  resp,        \* the last answer of build_tar or of the engine
  chain,       \* the result of the chained stages, before .then
  result,      \* what the future returned by call resolved to
  bSrc,        \* the records the engine encoded into the build stream
  bWire,       \* bytes of the build stream the body has not handed over yet
  bmBuf,       \* BuildMessages.buf
  bmFinished,  \* BuildMessages.finished
  bmRet,       \* what the last BuildMessages::poll returned
  bmOut,       \* the messages BuildMessages yielded so far
  xform,       \* the accumulator of the fold over the build messages
  id,          \* the container id bound by the create stage
  lSrc,        \* the frames the engine encoded into the log stream
  lWire,       \* bytes of the log stream the body has not handed over yet
  lFused,      \* Fuse<Body>: the body has answered Ready(None)
  lBuf,        \* Logs.buf
  lState,      \* Logs.state
  lRet,        \* how the last turn of the loop of Logs::poll ended
  lOut,        \* the messages Logs yielded so far
  acc,         \* the accumulator (stdout, stderr) of the fold over the log messages
  req,         \* the body of the POST /execute request, once read
  http,        \* the HTTP response of APIService::call, once produced
  cur,         \* the request whose task the variables above hold
  other,       \* the task of the other request, as its last poll left it
  pool,        \* the CpuPool of the Executor: jobs queued, running, finished
  draft        \* the Logs of docker/log.rs, fed the same log body, with what
               \* it has yielded

\* the state one request's task owns
taskVars ==
  <<pc, task, ops, resp, chain, result, bSrc, bWire, bmBuf, bmFinished, bmRet, bmOut,
    xform, id, lSrc, lWire, lFused, lBuf, lState, lRet, lOut, acc, req, http>>

vars == <<taskVars, cur, other, pool, draft>>

buildVars == <<bSrc, bWire, bmBuf, bmFinished, bmRet, bmOut, xform>>
logVars == <<lSrc, lWire, lFused, lBuf, lState, lRet, lOut, acc>>

Op(name, arg) == [op |-> name, arg |-> arg]

\* The create request with its image left out: the same body and header, but
\* an empty Image (used to show that the Image field matters).
CreateRequestWithoutImage(image) ==
  [NetworkDisabled |-> TRUE,
   Image           |-> <<>>,
   HostConfig      |-> [CpusetCpus |-> "2-3",
                        PidsLimit  |-> 1024,
                        Ulimits    |-> <<[Name |-> "cpu", Hard |-> 1, Soft |-> 1]>>,
                        AutoRemove |-> TRUE,
                        Memory     |-> 1073741824,
                        MemorySwap |-> 1073741824,
                        DiskQuota  |-> "10737418240"],
   ContentType     |-> "application/json"]

\* The create-container request of Executor::call: the json! body built from
\* the image id, and the ContentType::json() header added by with_header.
\* DiskQuota (10737418240) does not fit the checker's integers and is kept
\* as its decimal text.
CreateRequest(image) ==
  [NetworkDisabled |-> TRUE,
   Image           |-> image,
   HostConfig      |-> [CpusetCpus |-> "2-3",
                        PidsLimit  |-> 1024,
                        Ulimits    |-> <<[Name |-> "cpu", Hard |-> 1, Soft |-> 1]>>,
                        AutoRemove |-> TRUE,
                        Memory     |-> 1073741824,
                        MemorySwap |-> 1073741824,
                        DiskQuota  |-> "10737418240"],
   ContentType     |-> "application/json"]
NoSrc == [recs |-> <<>>, sep |-> "none"]
Resp(stage, status, body) == [stage |-> stage, status |-> status, body |-> body]
NoResp == Resp("", -1, "")

\* enum Language { C }: the names serde accepts for lang
LanguageNames == {"C"}
\* the lang values a client may send
LangValues == {"C", "c", "python2.7"}

\* what reading the request body gives: an error of the connection, or bytes;
\* wf: the bytes are a JSON object with a string field code and a string
\* field lang, lang: the value of that field
NoReq == [k |-> "none", wf |-> FALSE, lang |-> ""]
ReqReadError == [k |-> "error", wf |-> FALSE, lang |-> ""]
ReqBody(wf, lang) == [k |-> "body", wf |-> wf, lang |-> lang]
RequestBodies == {ReqReadError} \cup {ReqBody(wf, lang) : wf \in BOOLEAN, lang \in LangValues}

\* a decoder that takes any lang value
DecodesAnyLang(body) == body.k = "body" /\ body.wf

\* json::from_slice::<Submission>(&json) is Ok
Decodes(body) == body.k = "body" /\ body.wf /\ body.lang \in LanguageNames

\* hyper Response: status and body; a, b are the texts of a JSON body. Status 0:
\* no response
NoHttp == [status |-> 0, body |-> "", a |-> <<>>, b |-> <<>>]
HttpText(status, text) == [status |-> status, body |-> text, a |-> <<>>, b |-> <<>>]
\* json::to_string(&resp) of Output: {"compile_error":{"error":a}} or
\* {"output":{"stdout":a,"stderr":b}}, in a Response::new() (status 200)
HttpJson(out) ==
  [status |-> 200,
   body |-> IF out.t = "CompileError" THEN "compile_error" ELSE "output",
   a |-> out.a, b |-> out.b]

\* a response mapping that reports an error of the executor as a server error
ApiThenServerError(res) ==
  IF res.k = "Ok" THEN HttpJson(res)
  ELSE IF res.k = "Err" THEN HttpText(500, "Unknown error")
  ELSE NoHttp

\* .map_err(|_| APIError::ExecutionError).and_then(json body).then(..) of
\* APIService::call on the result of the executor; a panic gives no response
ApiThen(res) ==
  IF res.k = "Ok" THEN HttpJson(res)
  ELSE IF res.k = "Err" THEN HttpText(200, "Unknown error")
  ELSE NoHttp

\* CpuPool::new(1): the number of worker threads
PoolSize == 1

\* a pool with nothing to do; queue: the requests whose build_tar waits for a
\* worker, running: those whose build_tar a worker executes, done: the results
\* not yet taken by the request's task
EmptyPool == [queue |-> <<>>, running |-> {}, done |-> {}]

\* the Logs of docker/log.rs as Logs::new makes it, before a body of undelivered
\* bytes wire that comes in chunks of size bytes; out is what it has yielded
NewDraft(wire, size) ==
  [wire |-> wire, size |-> size, finished |-> FALSE, state |-> SHead,
   buf |-> <<>>, ret |-> "none", out |-> <<>>]
\* no second decoder
NoDraft == NewDraft(<<>>, 0)

\* the task of a request whose body has not been read yet
Fresh ==
  [pc |-> "idle", task |-> "wait", ops |-> <<>>, resp |-> NoResp, chain |-> RNone,
   result |-> RNone, bSrc |-> NoSrc, bWire |-> <<>>, bmBuf |-> <<>>,
   bmFinished |-> FALSE, bmRet |-> "none", bmOut |-> <<>>, xform |-> TEmpty,
   id |-> <<>>, lSrc |-> <<>>, lWire |-> <<>>, lFused |-> FALSE, lBuf |-> <<>>,
   lState |-> SHead, lRet |-> "none", lOut |-> <<>>,
   acc |-> [stdout |-> <<>>, stderr |-> <<>>], req |-> NoReq, http |-> NoHttp]

\* the task the variables hold, as a record
Snapshot ==
  [pc |-> pc, task |-> task, ops |-> ops, resp |-> resp, chain |-> chain,
   result |-> result, bSrc |-> bSrc, bWire |-> bWire, bmBuf |-> bmBuf,
   bmFinished |-> bmFinished, bmRet |-> bmRet, bmOut |-> bmOut, xform |-> xform,
   id |-> id, lSrc |-> lSrc, lWire |-> lWire, lFused |-> lFused, lBuf |-> lBuf,
   lState |-> lState, lRet |-> lRet, lOut |-> lOut, acc |-> acc, req |-> req,
   http |-> http]

Init ==
  /\ pc = "idle"
  /\ task = "wait"
  /\ ops = <<>>
  /\ resp = NoResp
  /\ chain = RNone
  /\ result = RNone
  /\ bSrc = NoSrc
  /\ bWire = <<>>
  /\ bmBuf = <<>>
  /\ bmFinished = FALSE
  /\ bmRet = "none"
  /\ bmOut = <<>>
  /\ xform = TEmpty
  /\ id = <<>>
  /\ lSrc = <<>>
  /\ lWire = <<>>
  /\ lFused = FALSE
  /\ lBuf = <<>>
  /\ lState = SHead
  /\ lRet = "none"
  /\ lOut = <<>>
  /\ acc = [stdout |-> <<>>, stderr |-> <<>>]
  /\ req = NoReq
  /\ http = NoHttp
  /\ cur = 1
  /\ other = Fresh
  /\ pool = EmptyPool
  /\ draft = NoDraft

\* the chain ends: inside the closure of image.and_then the result passes .then
Finish(res, through_then) ==
  /\ chain' = res
  /\ result' = IF through_then THEN Then(res) ELSE res
  /\ http' = ApiThen(IF through_then THEN Then(res) ELSE res)
  /\ pc' = "done"
  /\ task' = "wait"

\* APIService::call for POST /execute once the body is read: a body that is no
\* Submission is answered 400, an error of the connection 200 "Unknown error";
\* for a Submission Executor::call spawns build_tar on the pool
Call ==
  /\ pc = "idle"
  /\ \E body \in RequestBodies :
       /\ req' = body
       /\ IF Decodes(body)
          THEN /\ pc' = "pack"
               /\ ops' = Append(ops, Op("pack", <<>>))
               /\ pool' = [pool EXCEPT !.queue = Append(@, cur)]
               /\ UNCHANGED http
          ELSE /\ pc' = "done"
               /\ http' = IF body.k = "error" THEN HttpText(200, "Unknown error")
                          ELSE HttpText(400, "Invalid json")
               /\ UNCHANGED <<ops, pool>>
  /\ UNCHANGED <<task, resp, chain, result, id, cur, other, draft>>
  /\ UNCHANGED buildVars
  /\ UNCHANGED logVars

\* a chain that sends the build request whether or not build_tar succeeded
PackDoneIgnoresError ==
  /\ pc = "pack"
  /\ \E d \in pool.done :
       /\ d.r = cur
       /\ pool' = [pool EXCEPT !.done = @ \ {d}]
       /\ resp' = Resp("pack", d.ok, "")
  /\ ops' = Append(ops, Op("build", <<>>))
  /\ pc' = "build"
  /\ UNCHANGED <<task, chain, result, http, id, req, cur, other, draft>>
  /\ UNCHANGED buildVars
  /\ UNCHANGED logVars

\* a worker that takes a job although all workers are busy
WorkerTakeUnbounded ==
  /\ pool.queue # <<>>
  /\ pool' = [pool EXCEPT !.queue = Tail(@), !.running = @ \cup {Head(pool.queue)}]
  /\ UNCHANGED <<taskVars, cur, other, draft>>

\* a free worker thread of the pool takes the next job and starts build_tar
WorkerTake ==
  /\ pool.queue # <<>>
  /\ Cardinality(pool.running) < PoolSize
  /\ pool' = [pool EXCEPT !.queue = Tail(@), !.running = @ \cup {Head(pool.queue)}]
  /\ UNCHANGED <<taskVars, cur, other, draft>>

\* build_tar returns on its worker thread, Ok (1) or Err (0); the result waits
\* for the task of its request
WorkerDone ==
  /\ \E r \in pool.running, ok \in {0, 1} :
       pool' = [pool EXCEPT !.running = @ \ {r}, !.done = @ \cup {[r |-> r, ok |-> ok]}]
  /\ UNCHANGED <<taskVars, cur, other, draft>>

\* the task takes the result of its build_tar:
\* tar.map_err(BadConfig).and_then(build_on)
PackDone ==
  /\ pc = "pack"
  /\ \E d \in pool.done :
       /\ d.r = cur
       /\ pool' = [pool EXCEPT !.done = @ \ {d}]
       /\ resp' = Resp("pack", d.ok, "")
       /\ IF d.ok = 1
          THEN /\ ops' = Append(ops, Op("build", <<>>))
               /\ pc' = "build"
               /\ UNCHANGED <<task, chain, result, http>>
          ELSE /\ Finish(RErr("BadConfig", "", <<>>), FALSE)
               /\ UNCHANGED ops
  /\ UNCHANGED <<id, req, cur, other, draft>>
  /\ UNCHANGED buildVars
  /\ UNCHANGED logVars

\* a build stage that sends the build request once more after an error answer
BuildRespRetries ==
  /\ pc = "build"
  /\ \E status \in BuildStatuses :
       /\ resp' = Resp("build", status, "")
       /\ IF BuildOutcome(status) = ""
          THEN /\ \E recs \in SeqsUpTo(RecKinds, PipeRecs), sep \in SepModes :
                    /\ bSrc' = [recs |-> recs, sep |-> sep]
                    /\ bWire' = BuildWire(recs, sep)
               /\ pc' = "decode"
               /\ task' = "run"
               /\ UNCHANGED <<ops, chain, result, http>>
          ELSE IF Len(ops) < 3
          THEN /\ ops' = Append(ops, Op("build", <<>>))
               /\ UNCHANGED <<pc, task, chain, result, http, bSrc, bWire>>
          ELSE /\ Finish(RErr("DockerError", BuildOutcome(status), <<>>), FALSE)
               /\ UNCHANGED <<ops, bSrc, bWire>>
  /\ UNCHANGED <<id, bmBuf, bmFinished, bmRet, bmOut, xform>>
  /\ UNCHANGED logVars
  /\ UNCHANGED <<req, cur, other, pool, draft>>

\* the response to POST /build: on 200 the body becomes a BuildMessages and the
\* fold starts polling it
BuildResp ==
  /\ pc = "build"
  /\ \E status \in BuildStatuses :
       /\ resp' = Resp("build", status, "")
       /\ IF BuildOutcome(status) = ""
          THEN /\ \E recs \in SeqsUpTo(RecKinds, PipeRecs), sep \in SepModes :
                    /\ bSrc' = [recs |-> recs, sep |-> sep]
                    /\ bWire' = BuildWire(recs, sep)
               /\ pc' = "decode"
               /\ task' = "run"
               /\ UNCHANGED <<chain, result, http>>
          ELSE /\ Finish(RErr("DockerError", BuildOutcome(status), <<>>), FALSE)
               /\ UNCHANGED <<bSrc, bWire>>
  /\ UNCHANGED <<ops, id, bmBuf, bmFinished, bmRet, bmOut, xform>>
  /\ UNCHANGED logVars
  /\ UNCHANGED <<req, cur, other, pool, draft>>

Drop(seq, n) == SubSeq(seq, n + 1, Len(seq))

\* the task polls the fold over the build messages, which polls BuildMessages
\* once. A message goes through the fold closure; the end of the stream goes
\* through the terminal mapping and, for an id, on to the create request, and the
\* stream is dropped
BuildPollStep ==
  /\ pc = "decode"
  /\ task = "run"
  /\ \E up \in UpOutcomes(bWire) :
       LET r == BuildPoll(bmBuf, bmFinished, up)
           tm == TerminalMap(xform)
           created == (r.ret = "None" /\ tm.k = "Ok")
       IN /\ (~r.polled => up = UpNotReady)
          /\ bmFinished' = r.finished
          /\ bmRet' = r.ret
          /\ bWire' = IF created THEN <<>> ELSE Drop(bWire, Len(up.chunk))
          /\ bmBuf' = IF created THEN <<>> ELSE r.buf
          /\ bSrc' = IF created THEN NoSrc ELSE bSrc
          /\ bmOut' = IF created THEN <<>>
                      ELSE IF r.ret = "Some" THEN Append(bmOut, r.msg)
                      ELSE bmOut
          /\ xform' = IF r.ret = "Some" THEN Fold(xform, r.msg) ELSE xform
          /\ ops' = IF created THEN Append(ops, Op("create", CreateRequest(tm.a))) ELSE ops
          /\ CASE r.ret = "Some" ->
                    IF Fold(xform, r.msg).k = "Panic"
                    THEN Finish(RPanic, TRUE)
                    ELSE UNCHANGED <<pc, task, chain, result, http>>
               [] r.ret = "NotReady" ->
                    /\ task' = IF up.k = "NotReady" THEN "wait" ELSE "stall"
                    /\ UNCHANGED <<pc, chain, result, http>>
               [] r.ret = "Err" ->
                    Finish(RErr("DockerError", "HyperError", <<>>), TRUE)
               [] r.ret = "None" ->
                    IF created
                    THEN /\ pc' = "create"
                         /\ task' = "wait"
                         /\ UNCHANGED <<chain, result, http>>
                    ELSE Finish(tm, TRUE)
  /\ UNCHANGED <<resp, id>>
  /\ UNCHANGED logVars
  /\ UNCHANGED <<req, cur, other, pool, draft>>

\* a parked task is polled again (by its upstream, or by anything else that
\* notifies the task)
Wake ==
  /\ pc \in {"decode", "logs"}
  /\ task # "run"
  /\ task' = "run"
  /\ UNCHANGED <<pc, ops, resp, chain, result, id, http>>
  /\ UNCHANGED buildVars
  /\ UNCHANGED logVars
  /\ UNCHANGED <<req, cur, other, pool, draft>>

\* the response to POST /containers/create; an id goes on to start_container
CreateResp ==
  /\ pc = "create"
  /\ \E status \in CreateStatuses, body \in CreateBodies, cid \in ContainerIds :
       LET o == CreateOutcome(status, body)
       IN /\ resp' = Resp("create", status, body)
          /\ IF o = ""
             THEN /\ id' = cid
                  /\ ops' = Append(ops, Op("start", cid))
                  /\ pc' = "start"
                  /\ UNCHANGED <<task, chain, result, http>>
             ELSE /\ Finish(IF o = "Panic" THEN RPanic
                            ELSE RErr("UnknownError", "", <<>>), TRUE)
                  /\ UNCHANGED <<id, ops>>
  /\ UNCHANGED buildVars
  /\ UNCHANGED logVars
  /\ UNCHANGED <<req, cur, other, pool, draft>>

\* a start stage that asks for the logs of the container c1 whatever was created
StartRespOtherContainer ==
  /\ pc = "start"
  /\ \E status \in StartStatuses :
       /\ resp' = Resp("start", status, "")
       /\ IF StartOutcome(status) = ""
          THEN /\ ops' = Append(ops, Op("logs", <<"c", "1">>))
               /\ pc' = "attach"
               /\ UNCHANGED <<task, chain, result, http>>
          ELSE /\ Finish(RErr("UnknownError", "", <<>>), TRUE)
               /\ UNCHANGED ops
  /\ UNCHANGED id
  /\ UNCHANGED buildVars
  /\ UNCHANGED logVars
  /\ UNCHANGED <<req, cur, other, pool, draft>>

\* the response to POST /containers/{id}/start; success goes on to logs
StartResp ==
  /\ pc = "start"
  /\ \E status \in StartStatuses :
       /\ resp' = Resp("start", status, "")
       /\ IF StartOutcome(status) = ""
          THEN /\ ops' = Append(ops, Op("logs", id))
               /\ pc' = "attach"
               /\ UNCHANGED <<task, chain, result, http>>
          ELSE /\ Finish(RErr("UnknownError", "", <<>>), TRUE)
               /\ UNCHANGED ops
  /\ UNCHANGED id
  /\ UNCHANGED buildVars
  /\ UNCHANGED logVars
  /\ UNCHANGED <<req, cur, other, pool, draft>>

\* the response to GET /containers/{id}/logs: on 200 or 101 the body becomes a
\* Logs and the fold starts polling it
LogsResp ==
  /\ pc = "attach"
  /\ \E status \in LogsStatuses :
       /\ resp' = Resp("logs", status, "")
       /\ IF LogsOutcome(status) = ""
          THEN /\ \E frames \in SeqsUpTo(PipeFrameKinds, PipeFrames) :
                    /\ lSrc' = frames
                    /\ lWire' = LogWire(frames)
               /\ pc' = "logs"
               /\ task' = "run"
               /\ UNCHANGED <<chain, result, http>>
          ELSE /\ Finish(RErr("UnknownError", "", <<>>), TRUE)
               /\ UNCHANGED <<lSrc, lWire>>
  /\ UNCHANGED <<ops, id, lFused, lBuf, lState, lRet, lOut, acc>>
  /\ UNCHANGED buildVars
  /\ UNCHANGED <<req, cur, other, pool, draft>>

\* one turn of the loop of Logs::poll, polled by the fold over the log messages
LogsIterStep ==
  /\ pc = "logs"
  /\ task = "run"
  /\ \E up \in (IF lFused THEN {UpEnd} ELSE UpOutcomes(lWire)) :
       LET r == LogsIter(lState, lBuf, up)
       IN /\ lWire' = Drop(lWire, Len(up.chunk))
          /\ lFused' = (lFused \/ up.k = "End")
          /\ lBuf' = r.buf
          /\ lState' = r.state
          /\ lRet' = r.ret
          /\ lOut' = IF r.ret = "Some" THEN Append(lOut, r.msg) ELSE lOut
          /\ acc' = IF r.ret = "Some" THEN LogFold(acc, r.msg) ELSE acc
          /\ CASE r.ret \in {"Some", "cont"} -> UNCHANGED <<pc, task, chain, result, http>>
               [] r.ret = "NotReady" ->
                    /\ task' = "wait"
                    /\ UNCHANGED <<pc, chain, result, http>>
               [] r.ret = "None" -> Finish(ROk("Output", acc.stdout, acc.stderr), TRUE)
               [] r.ret = "Err" -> Finish(RErr("UnknownError", "", <<>>), TRUE)
               [] r.ret = "Panic" -> Finish(RPanic, TRUE)
  /\ UNCHANGED <<ops, resp, id, lSrc>>
  /\ UNCHANGED buildVars
  /\ UNCHANGED <<req, cur, other, pool, draft>>

Next ==
  \/ Call
  \/ WorkerTake
  \/ WorkerDone
  \/ PackDone
  \/ BuildResp
  \/ BuildPollStep
  \/ Wake
  \/ CreateResp
  \/ StartResp
  \/ LogsResp
  \/ LogsIterStep

Spec == Init /\ [][Next]_vars

\* ------------------------------------------------------ the decoders alone

\* a request whose build response (200) has just arrived: the fold over
\* BuildMessages starts on a stream of up to MaxRecs short records
InitBuildStream ==
  /\ pc = "decode"
  /\ task = "run"
  /\ ops = <<Op("pack", <<>>), Op("build", <<>>)>>
  /\ resp = Resp("build", 200, "")
  /\ chain = RNone
  /\ result = RNone
  /\ \E recs \in SeqsUpTo(ShortRecKinds, MaxRecs), sep \in SepModes :
       /\ bSrc = [recs |-> recs, sep |-> sep]
       /\ bWire = BuildWire(recs, sep)
  /\ bmBuf = <<>>
  /\ bmFinished = FALSE
  /\ bmRet = "none"
  /\ bmOut = <<>>
  /\ xform = TEmpty
  /\ id = <<>>
  /\ lSrc = <<>>
  /\ lWire = <<>>
  /\ lFused = FALSE
  /\ lBuf = <<>>
  /\ lState = SHead
  /\ lRet = "none"
  /\ lOut = <<>>
  /\ acc = [stdout |-> <<>>, stderr |-> <<>>]
  /\ req = ReqBody(TRUE, "C")
  /\ http = NoHttp
  /\ cur = 1
  /\ other = Fresh
  /\ pool = EmptyPool
  /\ draft = NoDraft

\* a request whose logs response (200) has just arrived, after the image a was
\* built and the container c1 created and started: the fold over Logs starts
\* on a stream of up to MaxFrames frames
InitLogStream ==
  /\ pc = "logs"
  /\ task = "run"
  /\ ops = <<Op("pack", <<>>), Op("build", <<>>), Op("create", CreateRequest(<<"a">>)),
             Op("start", <<"c", "1">>), Op("logs", <<"c", "1">>)>>
  /\ resp = Resp("logs", 200, "")
  /\ chain = RNone
  /\ result = RNone
  /\ bSrc = NoSrc
  /\ bWire = <<>>
  /\ bmBuf = <<>>
  /\ bmFinished = TRUE
  /\ bmRet = "None"
  /\ bmOut = <<>>
  /\ xform = TId(<<"a">>)
  /\ id = <<"c", "1">>
  /\ \E frames \in SeqsUpTo(Frames(MaxPayload), MaxFrames) :
       /\ lSrc = frames
       /\ lWire = LogWire(frames)
  /\ lFused = FALSE
  /\ lBuf = <<>>
  /\ lState = SHead
  /\ lRet = "none"
  /\ lOut = <<>>
  /\ acc = [stdout |-> <<>>, stderr |-> <<>>]
  /\ req = ReqBody(TRUE, "C")
  /\ http = NoHttp
  /\ cur = 1
  /\ other = Fresh
  /\ pool = EmptyPool
  /\ draft = NoDraft

InitStreams == InitBuildStream \/ InitLogStream

NextStreams ==
  \/ BuildPollStep
  \/ Wake
  \/ LogsIterStep

SpecStreams == InitStreams /\ [][NextStreams]_vars

\* ------------------------------------------------------ the frame header alone

\* the headers a log body may start with: a tag, also one that is no stream
\* (3, 255), three unused bytes of any value, and a length whose four bytes
\* differ in weight
HeaderInputs ==
  {<<t, r1, r2, r3, b4, b5, b6, b7>> :
     t \in Tags \cup {3, 255}, r1 \in {0, 255}, r2 \in {0, 255}, r3 \in {0, 255},
     b4 \in {0, 127}, b5 \in {0, 255}, b6 \in {0, 1}, b7 \in {0, 2}}

\* a request whose logs response (200) has just arrived and whose body starts
\* with one of these headers
InitHeader ==
  /\ pc = "logs"
  /\ task = "run"
  /\ ops = <<Op("pack", <<>>), Op("build", <<>>), Op("create", CreateRequest(<<"a">>)),
             Op("start", <<"c", "1">>), Op("logs", <<"c", "1">>)>>
  /\ resp = Resp("logs", 200, "")
  /\ chain = RNone
  /\ result = RNone
  /\ bSrc = NoSrc
  /\ bWire = <<>>
  /\ bmBuf = <<>>
  /\ bmFinished = TRUE
  /\ bmRet = "None"
  /\ bmOut = <<>>
  /\ xform = TId(<<"a">>)
  /\ id = <<"c", "1">>
  /\ lSrc = <<>>
  /\ lWire \in HeaderInputs
  /\ lFused = FALSE
  /\ lBuf = <<>>
  /\ lState = SHead
  /\ lRet = "none"
  /\ lOut = <<>>
  /\ acc = [stdout |-> <<>>, stderr |-> <<>>]
  /\ req = ReqBody(TRUE, "C")
  /\ http = NoHttp
  /\ cur = 1
  /\ other = Fresh
  /\ pool = EmptyPool
  /\ draft = NoDraft

NextHeader ==
  \/ LogsIterStep
  \/ Wake

SpecHeader == InitHeader /\ [][NextHeader]_vars

\* ----------------------------------------------------- the extractor alone

\* sha256 lines of other shapes: with no ":" at all, and with two
ShaBare == SHA256
ShaTwoColons == SHA256 \o <<":", "a", ":", "b">>
FoldKinds == {RecS(t) : t \in Lines \cup {ShaBare, ShaTwoColons}} \cup {RecE}

\* the fold over a given sequence of up to MaxEvents build messages
InitFold ==
  /\ pc = "fold"
  /\ task = "run"
  /\ ops = <<Op("pack", <<>>), Op("build", <<>>)>>
  /\ resp = Resp("build", 200, "")
  /\ chain = RNone
  /\ result = RNone
  /\ \E recs \in SeqsUpTo(FoldKinds, MaxEvents) : bSrc = [recs |-> recs, sep |-> "none"]
  /\ bWire = <<>>
  /\ bmBuf = <<>>
  /\ bmFinished = FALSE
  /\ bmRet = "none"
  /\ bmOut = <<>>
  /\ xform = TEmpty
  /\ id = <<>>
  /\ lSrc = <<>>
  /\ lWire = <<>>
  /\ lFused = FALSE
  /\ lBuf = <<>>
  /\ lState = SHead
  /\ lRet = "none"
  /\ lOut = <<>>
  /\ acc = [stdout |-> <<>>, stderr |-> <<>>]
  /\ req = ReqBody(TRUE, "C")
  /\ http = NoHttp
  /\ cur = 1
  /\ other = Fresh
  /\ pool = EmptyPool
  /\ draft = NoDraft

\* the fold closure takes the next message
FoldStep ==
  /\ pc = "fold"
  /\ Len(bmOut) < Len(bSrc.recs)
  /\ LET msg == RecMsg(bSrc.recs[Len(bmOut) + 1])
     IN /\ bmOut' = Append(bmOut, msg)
        /\ xform' = Fold(xform, msg)
        /\ IF Fold(xform, msg).k = "Panic"
           THEN Finish(RPanic, TRUE)
           ELSE UNCHANGED <<pc, task, chain, result, http>>
  /\ UNCHANGED <<ops, resp, id, bSrc, bWire, bmBuf, bmFinished, bmRet>>
  /\ UNCHANGED logVars
  /\ UNCHANGED <<req, cur, other, pool, draft>>

\* the stream of messages ends: the terminal mapping, and for an id the create
\* request
FoldEnd ==
  /\ pc = "fold"
  /\ Len(bmOut) = Len(bSrc.recs)
  /\ LET tm == TerminalMap(xform)
     IN IF tm.k = "Ok"
        THEN /\ ops' = Append(ops, Op("create", CreateRequest(tm.a)))
             /\ pc' = "create"
             /\ task' = "wait"
             /\ UNCHANGED <<chain, result, http>>
        ELSE /\ Finish(tm, TRUE)
             /\ UNCHANGED ops
  /\ UNCHANGED <<resp, id>>
  /\ UNCHANGED buildVars
  /\ UNCHANGED logVars
  /\ UNCHANGED <<req, cur, other, pool, draft>>

NextFold ==
  \/ FoldStep
  \/ FoldEnd

SpecFold == InitFold /\ [][NextFold]_vars

\* ------------------------------------------------- two concurrent requests

\* a reactor that leaves the accumulator of the log fold and the container id in
\* place when it turns to the other task
SwitchSharesState ==
  /\ task # "run"
  /\ cur' = 3 - cur
  /\ other' = Snapshot
  /\ pc' = other.pc
  /\ task' = other.task
  /\ ops' = other.ops
  /\ resp' = other.resp
  /\ chain' = other.chain
  /\ result' = other.result
  /\ bSrc' = other.bSrc
  /\ bWire' = other.bWire
  /\ bmBuf' = other.bmBuf
  /\ bmFinished' = other.bmFinished
  /\ bmRet' = other.bmRet
  /\ bmOut' = other.bmOut
  /\ xform' = other.xform
  /\ UNCHANGED id
  /\ lSrc' = other.lSrc
  /\ lWire' = other.lWire
  /\ lFused' = other.lFused
  /\ lBuf' = other.lBuf
  /\ lState' = other.lState
  /\ lRet' = other.lRet
  /\ lOut' = other.lOut
  /\ UNCHANGED acc
  /\ req' = other.req
  /\ http' = other.http
  /\ UNCHANGED <<pool, draft>>

\* the reactor turns from the task it polled, which is parked or has ended, to
\* the task of the other request: each task owns its futures, streams, decoders
\* and accumulators, and finds them as its last poll left them
Switch ==
  /\ task # "run"
  /\ cur' = 3 - cur
  /\ other' = Snapshot
  /\ pc' = other.pc
  /\ task' = other.task
  /\ ops' = other.ops
  /\ resp' = other.resp
  /\ chain' = other.chain
  /\ result' = other.result
  /\ bSrc' = other.bSrc
  /\ bWire' = other.bWire
  /\ bmBuf' = other.bmBuf
  /\ bmFinished' = other.bmFinished
  /\ bmRet' = other.bmRet
  /\ bmOut' = other.bmOut
  /\ xform' = other.xform
  /\ id' = other.id
  /\ lSrc' = other.lSrc
  /\ lWire' = other.lWire
  /\ lFused' = other.lFused
  /\ lBuf' = other.lBuf
  /\ lState' = other.lState
  /\ lRet' = other.lRet
  /\ lOut' = other.lOut
  /\ acc' = other.acc
  /\ req' = other.req
  /\ http' = other.http
  /\ UNCHANGED <<pool, draft>>

\* what the engine and the client send in the runs of two requests: a body that
\* decodes or not, a build stream of at most one record, a log stream of at
\* most one frame, and for each request of the chain its success status, a
\* failure status, or no answer
PairStreams ==
  {NoSrc} \cup {[recs |-> <<RecS(t)>>, sep |-> "each"] : t \in {ShaA, OutX}}
PairFrames == {<<>>} \cup {<<[tag |-> t, payload |-> <<120>>]>> : t \in {1, 2}}
PairInputs ==
  /\ req \in {NoReq, ReqBody(TRUE, "C"), ReqBody(TRUE, "c")}
  /\ bSrc \in PairStreams
  /\ lSrc \in PairFrames
  /\ resp.status \in {-1, 0, 1, 200, 201, 204, 404}
  /\ resp.body \in {"", "IdStr"}

NextPair ==
  \/ Switch
  \/ Next /\ PairInputs'

SpecPair == Init /\ [][NextPair]_vars

\* ------------------------------------------- the two log decoders, side by side

\* the sizes of chunk a body of these bytes may come in: every chunk has size
\* bytes but the last, which has what is left
ChunkSizes(wire) == 1..(IF wire = <<>> THEN 1 ELSE Len(wire))

\* a request whose logs response (200) has just arrived, with a body of up to
\* MaxFrames well-formed frames that comes in chunks of one size, and a Logs of
\* docker/log.rs made for the same body
InitDrafts ==
  /\ pc = "logs"
  /\ task = "run"
  /\ ops = <<Op("pack", <<>>), Op("build", <<>>), Op("create", CreateRequest(<<"a">>)),
             Op("start", <<"c", "1">>), Op("logs", <<"c", "1">>)>>
  /\ resp = Resp("logs", 200, "")
  /\ chain = RNone
  /\ result = RNone
  /\ bSrc = NoSrc
  /\ bWire = <<>>
  /\ bmBuf = <<>>
  /\ bmFinished = TRUE
  /\ bmRet = "None"
  /\ bmOut = <<>>
  /\ xform = TId(<<"a">>)
  /\ id = <<"c", "1">>
  /\ \E frames \in SeqsUpTo(Frames(MaxPayload), MaxFrames) :
       /\ lSrc = frames
       /\ lWire = LogWire(frames)
  /\ lFused = FALSE
  /\ lBuf = <<>>
  /\ lState = SHead
  /\ lRet = "none"
  /\ lOut = <<>>
  /\ acc = [stdout |-> <<>>, stderr |-> <<>>]
  /\ req = ReqBody(TRUE, "C")
  /\ http = NoHttp
  /\ cur = 1
  /\ other = Fresh
  /\ pool = EmptyPool
  /\ \E size \in ChunkSizes(lWire) : draft = NewDraft(lWire, size)

\* the body hands the Logs of executor/log.rs the chunks of draft.size bytes,
\* then its end, and no transport error
SameChunks ==
  LET n == Len(lWire) - Len(lWire')
  IN /\ n \in {0, Min({draft.size, Len(lWire)})}
     /\ (lFused' /\ ~lFused) => lWire = <<>>
     /\ lRet' = "Err" => lFused'

\* the cap on what the Logs of docker/log.rs is polled for: one message more
\* than there are frames
DraftCap == Len(lSrc) + 1

\* once the Logs of executor/log.rs is through, the Logs of docker/log.rs is
\* polled on the same body in the same chunks until it returns an end, an
\* error or a panic
DockerPollStep ==
  /\ pc = "done"
  /\ draft.ret \notin {"None", "Err", "Panic"}
  /\ Len(draft.out) < DraftCap
  /\ \E up \in {UpNotReady,
                 IF draft.wire = <<>> THEN UpEnd
                 ELSE UpChunk(SubSeq(draft.wire, 1,
                                     Min({draft.size, Len(draft.wire)})))} :
       LET r == DockerPoll(draft.finished, draft.state, draft.buf, up)
       IN /\ (draft.finished => up = UpNotReady)
          /\ draft' = [draft EXCEPT
                         !.wire = IF draft.finished THEN @
                                  ELSE Drop(@, Len(up.chunk)),
                         !.finished = r.finished,
                         !.state = r.state,
                         !.buf = r.buf,
                         !.ret = r.ret,
                         !.out = IF r.ret = "Some" THEN Append(@, r.msg) ELSE @]
  /\ UNCHANGED <<taskVars, cur, other, pool>>

NextDrafts ==
  \/ LogsIterStep /\ SameChunks
  \/ Wake
  \/ DockerPollStep

SpecDrafts == InitDrafts /\ [][NextDrafts]_vars

\* --------------------------------------------------- the pipeline, scheduled

\* the reactor polls a parked task again when the source that answered NotReady
\* to its last poll becomes ready; a task that returned NotReady without such
\* an answer has no wake-up registered
WakeReady ==
  /\ task = "wait"
  /\ Wake

\* a poll of the build stream in which the body did not answer NotReady
BuildDelivers ==
  /\ BuildPollStep
  /\ ~(task' = "wait" /\ pc' = "decode")

\* a turn of Logs::poll in which the body did not make it return NotReady
LogsDelivers ==
  /\ LogsIterStep
  /\ ~(task' = "wait" /\ pc' = "logs")

NextLive ==
  \/ Call
  \/ WorkerTake
  \/ WorkerDone
  \/ PackDone
  \/ BuildResp
  \/ BuildPollStep
  \/ WakeReady
  \/ CreateResp
  \/ StartResp
  \/ LogsResp
  \/ LogsIterStep

\* the pool runs the packer to its end, the engine answers every request, a
\* parked task whose source is ready is polled, and each body answers NotReady
\* only finitely many times in a row
Fairness ==
  /\ WF_vars(WorkerTake) /\ WF_vars(WorkerDone) /\ WF_vars(PackDone)
  /\ WF_vars(BuildResp) /\ WF_vars(CreateResp)
  /\ WF_vars(StartResp) /\ WF_vars(LogsResp)
  /\ WF_vars(WakeReady)
  /\ SF_vars(BuildDelivers) /\ SF_vars(LogsDelivers)

SpecLive == Init /\ [][NextLive]_vars /\ Fairness

\* ------------------------------------------------------------------ claims

Order == <<"pack", "build", "create", "start", "logs">>
StageIndex(stage) == CHOOSE i \in 1..5 : Order[i] = stage
OpNames == [i \in 1..Len(ops) |-> ops[i].op]
\* the answer in resp is the success answer of its stage
RespOk ==
  \/ resp.stage = "pack" /\ resp.status = 1
  \/ resp.stage = "build" /\ resp.status = 200
  \/ resp.stage = "create" /\ resp.status = 201 /\ resp.body = "IdStr"
  \/ resp.stage = "start" /\ resp.status \in {204, 304}
  \/ resp.stage = "logs" /\ resp.status \in {200, 101}

\* C1: the operations of a request are issued in the order pack, build, create,
\* start, logs; while a stage awaits its answer the last answer received is the
\* success of the stage before it (for create: the build stream ended with an
\* id); and once the request has ended on a failed answer, the failed stage's
\* operation is the last one issued
C1_StagesInOrder ==
  /\ OpNames = SubSeq(Order, 1, Len(ops))
  /\ pc = "idle" => ops = <<>>
  /\ pc = "pack" => Len(ops) = 1
  /\ pc = "build" => Len(ops) = 2 /\ resp.stage = "pack" /\ RespOk
  /\ pc = "decode" => Len(ops) = 2 /\ resp.stage = "build" /\ RespOk
  /\ pc = "create" =>
       Len(ops) = 3 /\ resp.stage = "build" /\ RespOk /\ bmRet = "None" /\ xform.k = "Id"
  /\ pc = "start" => Len(ops) = 4 /\ resp.stage = "create" /\ RespOk
  /\ pc = "attach" => Len(ops) = 5 /\ resp.stage = "start" /\ RespOk
  /\ pc = "logs" => Len(ops) = 5 /\ resp.stage = "logs" /\ RespOk
  /\ pc = "done" =>
       /\ resp = NoResp => ops = <<>>
       /\ (resp # NoResp /\ ~RespOk) => Len(ops) = StageIndex(resp.stage)
       /\ RespOk => resp.stage \in {"build", "logs"}
       /\ RespOk /\ resp.stage = "build" => Len(ops) = 2
       /\ RespOk /\ resp.stage = "logs" => Len(ops) = 5

\* a request that went through all five stages and returned the output
C1_Witness ==
  /\ pc = "done"
  /\ Len(ops) = 5
  /\ result.k = "Ok"
  /\ result.t = "Output"

\* C2: the request resolves to Ok(Output::CompileError{error: t}) exactly when
\* the chain failed with CompileError(t); any other error of the chain is
\* returned unchanged as Err
C2_OnlyCompileErrorBecomesOutput ==
  /\ (result.k = "Ok" /\ result.t = "CompileError")
       <=> (chain.k = "Err" /\ chain.t = "CompileError")
  /\ (chain.k = "Err" /\ chain.t = "CompileError") => result.a = chain.a
  /\ (chain.k = "Err" /\ chain.t # "CompileError") => result = chain

\* a request that resolved to the compile error x
C2_Witness ==
  /\ pc = "done"
  /\ chain = RErr("CompileError", "", OutX)
  /\ result = ROk("CompileError", OutX, <<>>)

HasOp(name) == \E i \in 1..Len(ops) : ops[i].op = name

\* C3: when the fold over the build stream ends in Error(t), no create, start
\* or logs request is issued, and the chain fails with CompileError(t)
C3_ErrorShortCircuits ==
  xform.k = "Error" =>
    /\ ~HasOp("create") /\ ~HasOp("start") /\ ~HasOp("logs")
    /\ bmRet = "None" => pc = "done" /\ chain = RErr("CompileError", "", xform.s)

\* the build stream ended with the fold in Error
C3_Witness ==
  /\ pc = "done"
  /\ bmRet = "None"
  /\ xform.k = "Error"
  /\ Len(xform.s) > 0

TagName(t) == IF t = 0 THEN "Stdin" ELSE IF t = 1 THEN "Stdout" ELSE "Stderr"
\* the messages a sequence of frames stands for
FrameMsgs(frames) == [i \in 1..Len(frames) |-> LMsg(TagName(frames[i].tag), frames[i].payload)]
\* the request is at, or ended in, the fold over its log stream
InLogStream == Len(ops) = 5 /\ resp.stage = "logs" /\ resp.status \in {200, 101}
\* the request is at, or ended in, the fold over its build stream
InBuildStream == Len(ops) = 2 /\ resp.stage = "build" /\ resp.status = 200

\* C4: when the bytes of a sequence of well-formed frames have all been
\* delivered, in whatever chunks, and the upstream has then ended, Logs ends
\* with a clean end-of-stream after yielding exactly the frames encoded
C4_LogRoundTrip ==
  (InLogStream /\ pc = "done" /\ lFused /\ lWire = <<>>) =>
    (lRet = "None" /\ lOut = FrameMsgs(lSrc))

\* no record of the sequence is an object of unknown shape
AllValid(recs) == \A i \in 1..Len(recs) : recs[i].k # "U"
RecMsgs(recs) == [i \in 1..Len(recs) |-> RecMsg(recs[i])]

\* C5: for a stream of valid records that the engine did not cut short,
\* whatever the chunks, when BuildMessages ends the stream it has yielded
\* the message of every record, in order
C5_BuildChunkIndependent ==
  (InBuildStream /\ pc = "done" /\ bmRet = "None" /\ AllValid(bSrc.recs)
     /\ (bmFinished => bWire = <<>>)) =>
    bmOut = RecMsgs(bSrc.recs)

\* Logs holds a part of a frame: some but not all bytes of a header, or a
\* header and fewer payload bytes than it announces
PartialFrame ==
  \/ lState.k = "Head" /\ Len(lBuf) \in 1..7
  \/ lState.k = "Body" /\ Len(lBuf) < lState.size

\* C6: a turn of Logs::poll that finds the upstream ended and leaves a partial
\* frame in the decoder returns a decode error
C6_EofMidFrameIsError ==
  (InLogStream /\ lFused /\ PartialFrame) => lRet = "Err"

AllWs(buf) == \A i \in 1..Len(buf) : IsWs(buf[i])

\* C7: once the upstream has ended, a poll of BuildMessages yields a buffered
\* value, or the end of the stream if only whitespace is left, or a decode
\* error if other bytes are left; it never returns NotReady
C7_BuildEndOfStream ==
  (InBuildStream /\ bmFinished) =>
    /\ bmRet \in {"Some", "None", "Err"}
    /\ bmRet = "None" => AllWs(bmBuf)
    /\ bmRet = "Err" => ~AllWs(bmBuf)

\* the buffer of Logs holds a whole frame that it could yield
HasFrame(st, buf) ==
  \/ st.k = "Body" /\ Len(buf) >= st.size
  \/ st.k = "Head" /\ Len(buf) >= 8 /\ Len(buf) >= 8 + ReadU32(SubSeq(buf, 5, 8))

\* C8: a decoder takes a chunk from its upstream only when its buffer holds no
\* whole value (build record, log frame) that it could yield
C8_Backpressure ==
  [][/\ (pc = "decode" /\ pc' = "decode" /\ Len(bWire') < Len(bWire))
          => NextMessage(bmBuf).k # "Some"
     /\ (pc = "logs" /\ pc' = "logs" /\ Len(lWire') < Len(lWire))
          => ~HasFrame(lState, lBuf)]_vars

\* the offset in the build stream at which its k-th record ends
RecEnd(k) ==
  Len(BuildWire(SubSeq(bSrc.recs, 1, k), bSrc.sep)) - (IF bSrc.sep = "each" THEN 2 ELSE 0)
BuildReceived == Len(BuildWire(bSrc.recs, bSrc.sep)) - Len(bWire)
FrameEnd(k) == Len(LogWire(SubSeq(lSrc, 1, k)))
LogReceived == Len(LogWire(lSrc)) - Len(lWire)

\* C9: the messages a decoder has yielded are, in order and without repeats,
\* the first records of its stream, each of them valid and wholly received
C9_InOrderPrefix ==
  /\ Len(bmOut) <= Len(bSrc.recs)
  /\ bmOut = SubSeq(RecMsgs(bSrc.recs), 1, Len(bmOut))
  /\ \A k \in 1..Len(bmOut) : bSrc.recs[k].k # "U" /\ RecEnd(k) <= BuildReceived
  /\ Len(lOut) <= Len(lSrc)
  /\ lOut = SubSeq(FrameMsgs(lSrc), 1, Len(lOut))
  /\ \A k \in 1..Len(lOut) : FrameEnd(k) <= LogReceived

\* Logs yielded two different frames, the second before the stream ended
C9_Witness ==
  /\ pc = "logs"
  /\ Len(lOut) = 2
  /\ lOut[1] # lOut[2]
  /\ ~lFused

IsSha(msg) == msg.k = "Stream" /\ StartsWith(msg.stream, SHA256)

\* C10 as stated: once the fold is in Id(s), no message changes s
C10_IdNeverChanges ==
  [][xform.k = "Id" => xform' = xform]_vars

\* C10 amended: once the fold is in Id(s), the id only changes when a stream
\* line starting with sha256 is folded, and then to the hash of that line (the
\* closure panics on such a line without a ":"); every other message leaves
\* Id(s) as it is
C10_IdChangesOnlyOnSha ==
  [][xform.k = "Id" =>
       \/ xform' = xform
       \/ /\ Len(bmOut') = Len(bmOut) + 1
          /\ IsSha(bmOut'[Len(bmOut')])
          /\ LET p == SecondPiece(bmOut'[Len(bmOut')].stream)
             IN xform' = IF p.some THEN TId(TrimRight(p.v)) ELSE TPanic]_vars

\* the fold kept Id(a) over a line of compiler output
C10_Witness ==
  /\ Len(bmOut) = 2
  /\ bmOut[1] = MStream(ShaA)
  /\ bmOut[2] = MStream(OutX)
  /\ xform = TId(<<"a">>)

IsStepLine(m) == m.k = "Stream" /\ Contains(m.stream, STEP)
IsCacheLine(m) == m.k = "Stream" /\ Contains(m.stream, DASHES)
\* the place of the last Step line among the messages, 0 if there is none
LastStep(msgs) ==
  LET S == {i \in 1..Len(msgs) : IsStepLine(msgs[i])}
  IN IF S = {} THEN 0 ELSE CHOOSE i \in S : \A j \in S : j <= i
\* the stream lines from place i on that are neither Step nor cache-hint lines,
\* concatenated latest first
RECURSIVE ErrText(_, _)
ErrText(msgs, i) ==
  IF i > Len(msgs) THEN <<>>
  ELSE ErrText(msgs, i + 1)
         \o (IF msgs[i].k = "Stream" /\ ~IsStepLine(msgs[i]) /\ ~IsCacheLine(msgs[i])
             THEN msgs[i].stream ELSE <<>>)

C12_EmptyGivesUnknown ==
  (InBuildStream /\ bmRet = "None" /\ xform.k = "Empty") =>
    (pc = "done" /\ result = RErr("UnknownError", "", <<>>))

\* the payloads of the frames with the given tag, concatenated in arrival order
RECURSIVE Demux(_, _)
Demux(frames, tag) ==
  IF frames = <<>> THEN <<>>
  ELSE (IF Head(frames).tag = tag THEN Head(frames).payload ELSE <<>>)
         \o Demux(Tail(frames), tag)

\* C13: when Logs ends the stream cleanly, every byte received belonged to a
\* frame it yielded, and the request resolves to Output with stdout the
\* payloads of those frames tagged 1 and stderr the payloads of those tagged 2,
\* each in arrival order; frames tagged 0 add to neither
C13_Demultiplex ==
  (InLogStream /\ pc = "done" /\ lRet = "None") =>
    LET got == SubSeq(lSrc, 1, Len(lOut))
    IN /\ FrameEnd(Len(lOut)) = LogReceived
       /\ result = ROk("Output", Demux(got, 1), Demux(got, 2))

\* a clean end after two stdout frames with different payloads
C13_Witness ==
  /\ pc = "done"
  /\ lRet = "None"
  /\ Len(lOut) = 2
  /\ lOut[1].t = "Stdout" /\ lOut[2].t = "Stdout"
  /\ lOut[1].s # <<>> /\ lOut[2].s # <<>> /\ lOut[1].s # lOut[2].s
  /\ result.a = lOut[1].s \o lOut[2].s

\* C14: after the build lines "Step 1" and "---> sha256:a\n" the stream ends;
\* the image id a is extracted and the create request is issued for it
C14_Scenario1 ==
  (pc # "fold" /\ bmOut = <<MStream(StepLine), MStream(DashShaLine)>>) =>
    (pc = "create" /\ Len(ops) = 3 /\ ops[3] = Op("create", CreateRequest(<<"a">>)))

\* C15: a step resolves the request to Output only when Logs has seen the end
\* of the log stream and returned a clean end; and a step in the logs stage
\* produces an HTTP response only when the log stream has ended or its
\* transport has failed (an error returned with no byte taken)
C15_OutputAfterLogEnd ==
  [][/\ (result'.k = "Ok" /\ result'.t = "Output")
          => (lFused' /\ lRet' = "None" /\ lBuf' = <<>>)
     /\ (pc = "logs" /\ http' # NoHttp)
          => \/ lFused'
             \/ lRet' = "Err" /\ lBuf' = lBuf /\ lWire' = lWire /\ lState' = lState]_vars

\* the request resolved to an output with text on stdout after the stream ended
C15_Witness ==
  /\ pc = "done"
  /\ lFused
  /\ result.k = "Ok" /\ result.t = "Output" /\ result.a # <<>>
  /\ http.status = 200 /\ http.body = "output"

\* C18: when build_tar fails, the request has ended with Err(BadConfig) and
\* the only operation issued for it is the packer run: no engine request
C18_PackFailureIsBadConfig ==
  (resp.stage = "pack" /\ resp.status = 0) =>
    /\ pc = "done"
    /\ result = RErr("BadConfig", "", <<>>)
    /\ ops = <<Op("pack", <<>>)>>

\* build_tar failed
C18_Witness ==
  /\ resp = Resp("pack", 0, "")
  /\ result.k = "Err" /\ result.t = "BadConfig"

\* C19: for a request whose body decoded as a Submission, once the executor
\* has resolved: an error (BadConfig, DockerError, UnknownError) is answered
\* 200 "Unknown error", a compile error 200 with the compile_error JSON body
\* that carries its text
C19_ErrorsAnswered200 ==
  (Decodes(req) /\ pc = "done") =>
    /\ chain.k = "Err" /\ chain.t # "CompileError"
         => http = HttpText(200, "Unknown error")
    /\ chain.k = "Err" /\ chain.t = "CompileError"
         => http = [status |-> 200, body |-> "compile_error", a |-> chain.a, b |-> <<>>]

\* the build request was answered 400 and the client got "Unknown error"
C19_Witness ==
  /\ pc = "done"
  /\ resp = Resp("build", 400, "")
  /\ chain = RErr("DockerError", "BadRequest", <<>>)
  /\ http = HttpText(200, "Unknown error")

\* C20: a request body that is read but is no Submission (malformed JSON, or a
\* lang outside the names of Language) is answered 400 "Invalid json" in the
\* step that reads it, and nothing is issued for it: no packer run, no engine
\* request
C20_BadRequestIs400 ==
  (req.k = "body" /\ ~(req.wf /\ req.lang \in LanguageNames)) =>
    /\ pc = "done"
    /\ http = HttpText(400, "Invalid json")
    /\ ops = <<>>
    /\ result = RNone

\* a well-formed body whose lang is "c" was answered 400
C20_Witness ==
  /\ req = ReqBody(TRUE, "c")
  /\ http.status = 400
  /\ ops = <<>>

\* the fold of the build messages from Transform::Empty
RECURSIVE FoldAll(_)
FoldAll(msgs) ==
  IF msgs = <<>> THEN TEmpty
  ELSE Fold(FoldAll(SubSeq(msgs, 1, Len(msgs) - 1)), msgs[Len(msgs)])

\* the fold of the log messages from two empty strings
RECURSIVE LogFoldAll(_)
LogFoldAll(msgs) ==
  IF msgs = <<>> THEN [stdout |-> <<>>, stderr |-> <<>>]
  ELSE LogFold(LogFoldAll(SubSeq(msgs, 1, Len(msgs) - 1)), msgs[Len(msgs)])

\* what the request of task s resolves to when it runs alone and gets the
\* answers and the streams that s got
Alone(s) ==
  IF s.resp.stage = "pack" THEN RErr("BadConfig", "", <<>>)
  ELSE IF s.resp.stage = "build"
       THEN IF BuildOutcome(s.resp.status) # ""
            THEN RErr("DockerError", BuildOutcome(s.resp.status), <<>>)
            ELSE IF FoldAll(s.bmOut).k = "Panic" THEN RPanic
            ELSE IF s.bmRet = "Err" THEN RErr("DockerError", "HyperError", <<>>)
            ELSE Then(TerminalMap(FoldAll(s.bmOut)))
  ELSE IF s.resp.stage = "create"
       THEN IF CreateOutcome(s.resp.status, s.resp.body) = "Panic" THEN RPanic
            ELSE RErr("UnknownError", "", <<>>)
  ELSE IF s.resp.stage = "start" THEN RErr("UnknownError", "", <<>>)
  ELSE IF s.resp.stage = "logs"
       THEN IF LogsOutcome(s.resp.status) # "" \/ s.lRet = "Err"
            THEN RErr("UnknownError", "", <<>>)
            ELSE IF s.lRet = "None"
            THEN ROk("Output", LogFoldAll(s.lOut).stdout, LogFoldAll(s.lOut).stderr)
            ELSE RPanic
  ELSE RNone

\* the task s holds what its own request received, and nothing else
Own(s) ==
  /\ Len(s.bmOut) <= Len(s.bSrc.recs)
  /\ s.bmOut = SubSeq(RecMsgs(s.bSrc.recs), 1, Len(s.bmOut))
  /\ Len(s.ops) = 2 => s.xform = FoldAll(s.bmOut)
  /\ Len(s.ops) >= 3 => s.xform.k = "Id" /\ s.ops[3] = Op("create", CreateRequest(s.xform.s))
  /\ Len(s.lOut) <= Len(s.lSrc)
  /\ s.lOut = SubSeq(FrameMsgs(s.lSrc), 1, Len(s.lOut))
  /\ s.acc = LogFoldAll(s.lOut)
  /\ Len(s.ops) >= 4 => s.ops[4] = Op("start", s.id)
  /\ Len(s.ops) >= 5 => s.ops[5] = Op("logs", s.id)
  /\ s.pc = "done" =>
       /\ s.result = Alone(s)
       /\ s.ops # <<>> => s.http = ApiThen(Alone(s))
       /\ s.ops = <<>> =>
            s.http = IF s.req.k = "error" THEN HttpText(200, "Unknown error")
                     ELSE HttpText(400, "Invalid json")

\* C16: with two requests on one Executor, under every interleaving of their
\* packer runs, engine answers and stream chunks, each task holds the messages,
\* the fold state, the accumulators and the container id of its own request
\* only, and each request resolves to what it resolves to alone on the same
\* answers
C16_RequestIsolation == Own(Snapshot) /\ Own(other)

\* both requests returned their output, one on stdout, one on stderr, from
\* different images and containers
C16_Witness ==
  /\ pc = "done" /\ other.pc = "done"
  /\ result.t = "Output" /\ other.result.t = "Output"
  /\ result.a = <<120>> /\ result.b = <<>>
  /\ other.result.a = <<>> /\ other.result.b = <<120>>
  /\ id # other.id

\* C17: at most one build_tar executes at any time; a build_tar starts and ends
\* in a step of a worker thread of the pool, which touches no task, and a step
\* that changes a task (a step of the reactor) starts and ends no build_tar
C17_PackerOnPool ==
  [][/\ Cardinality(pool.running) <= 1
     /\ Cardinality(pool.running') <= 1
     /\ pool.running' # pool.running => UNCHANGED <<taskVars, cur, other>>]_vars

\* the build_tar of one request executes while that of the other waits
C17_Witness ==
  /\ Cardinality(pool.running) = 1
  /\ pool.queue # <<>>
  /\ Head(pool.queue) \notin pool.running

\* C21: the answer to the create request gives the Id of its body for 201, and
\* else an error that the status alone decides: CantAttach for 406, BadRequest
\* for 400 and 404, InternalServerError for any other status
C21_CreateStatusMapping ==
  (resp.stage = "create" /\ resp.status # 0) =>
    LET o == CreateOutcome(resp.status, resp.body)
    IN /\ resp.status = 201 => o = ""
       /\ resp.status = 406 => o = "CantAttach"
       /\ resp.status \in {400, 404} => o = "BadRequest"
       /\ resp.status \notin {201, 406, 400, 404} => o = "InternalServerError"

\* C22: the answer to the start request gives success for 204 and 304,
\* NotFound for 404, InternalServerError for any other status, HyperError
\* when the transport fails; the request then ends in an error, never a panic
C22_StartStatusMapping ==
  resp.stage = "start" =>
    LET o == StartOutcome(resp.status)
    IN /\ resp.status \in {204, 304} <=> o = ""
       /\ resp.status = 404 <=> o = "NotFound"
       /\ resp.status = 0 <=> o = "HyperError"
       /\ resp.status \notin {0, 204, 304, 404} <=> o = "InternalServerError"
       /\ o # "" => pc = "done" /\ result = RErr("UnknownError", "", <<>>)
       /\ o = "" => pc # "done" /\ ops[Len(ops)] = Op("logs", id)

\* the start request was answered 500 and the request ended in an error
C22_Witness ==
  /\ resp = Resp("start", 500, "")
  /\ pc = "done"
  /\ result.k = "Err"

\* the buffer starts, after whitespace, with a whole JSON value that is no
\* message: an object of unknown shape
BadValueAtHead(buf) ==
  LET i == FirstNonWs(buf)
  IN /\ i <= Len(buf)
     /\ \E j \in (i + 1)..Len(buf) : buf[j] = "}"
     /\ NextMessage(buf).k = "Err"

\* C23: a poll of BuildMessages that leaves at the head of its buffer a whole
\* JSON value that is no message has returned a decode error (or the message
\* that came before it), not NotReady and not the end of the stream
C23_DecodeErrorInBand ==
  (InBuildStream /\ bmRet # "none" /\ BadValueAtHead(bmBuf)) =>
    bmRet \in {"Some", "Err"}

\* C24: a log stream with a frame whose payload is no valid UTF-8 does not make
\* the task of the request panic
C24_BadUtf8Tolerated ==
  (InLogStream /\ \E i \in 1..Len(lSrc) : ~FromUtf8Ok(lSrc[i].payload)) =>
    result.k # "Panic"

\* the buffer of Logs once a step has added the chunk it took from the body
LogBufWithChunk == lBuf \o SubSeq(lWire, 1, Len(lWire) - Len(lWire'))

\* C25: a step that parses a header whose first byte is 0, 1 or 2 gives the tag
\* Stdin, Stdout or Stderr and the size b4*2^24 + b5*2^16 + b6*2^8 + b7 of its
\* eight bytes b0..b7, whatever the bytes b1..b3
C25_HeaderDecoding ==
  [][(pc = "logs" /\ lState.k = "Head" /\ lState'.k = "Body") =>
       LET h == SubSeq(LogBufWithChunk, 1, 8)
       IN /\ lState'.log_type = TagName(h[1])
          /\ lState'.size = h[5] * 16777216 + h[6] * 65536 + h[7] * 256 + h[8]]_vars

\* the header 02 FF FF FF 7F FF 01 02 was parsed
C25_Witness ==
  /\ lState.k = "Body"
  /\ lState.log_type = "Stderr"
  /\ lState.size = 127 * 16777216 + 255 * 65536 + 256 + 2
  /\ lWire = <<>> /\ lBuf = <<>>

\* the create requests of task s: each has the fixed body and header, and the
\* image that the extraction state of s holds
CreateRequestsOf(s) ==
  \A i \in 1..Len(s.ops) :
    s.ops[i].op = "create" =>
      LET r == s.ops[i].arg
          h == r.HostConfig
      IN /\ r.NetworkDisabled = TRUE
         /\ h.AutoRemove = TRUE
         /\ h.Ulimits = <<[Name |-> "cpu", Hard |-> 1, Soft |-> 1]>>
         /\ h.PidsLimit = 1024
         /\ h.Memory = 1073741824 /\ h.MemorySwap = 1073741824
         /\ r.ContentType = "application/json"
         /\ s.xform.k = "Id"
         /\ r.Image = s.xform.s

\* C26: every create-container request of a task carries NetworkDisabled
\* true, AutoRemove true, the cpu ulimit 1/1, PidsLimit 1024, Memory and
\* MemorySwap 1073741824 and Content-Type application/json, and the step that
\* sends it gives it as Image the id that the fold of the messages received
\* on the same task's build stream ended with
C26_CreateRequest ==
  [][/\ CreateRequestsOf(Snapshot') /\ CreateRequestsOf(other')
     /\ (cur' = cur /\ Len(ops') = Len(ops) + 1
           /\ ops'[Len(ops')].op = "create") =>
          /\ bmOut = SubSeq(RecMsgs(bSrc.recs), 1, Len(bmOut))
          /\ FoldAll(bmOut).k = "Id"
          /\ ops'[Len(ops')].arg.Image = FoldAll(bmOut).s]_vars

\* a request has sent its create request for the image of its own build
\* stream while the other request's build stream, with another line, is being
\* folded
C26_Witness ==
  /\ Len(ops) = 3 /\ ops[3].op = "create"
  /\ ops[3].arg.Image = <<"a">>
  /\ other.pc = "decode" /\ other.bmOut = <<MStream(OutX)>>
  /\ other.xform = TError(OutX)

\* C27: Logs alternates Head and Body. A turn of the loop leaves Head only
\* with at least 8 bytes buffered, for the Body of the header in the first 8
\* of them, which it takes off the buffer, and yields nothing; a turn in Body
\* keeps the header until it yields, and what it yields has the tag of that
\* header and as payload the first size bytes buffered after it, which it
\* takes off the buffer, and the state is Head again
C27_HeadBodyAlternation ==
  [][pc = "logs" =>
       LET b == LogBufWithChunk
       IN /\ lState.k = "Head" => lOut' = lOut
          /\ (lState.k = "Head" /\ lState' # lState) =>
               /\ Len(b) >= 8
               /\ lState' = SBody(HeaderNew(SubSeq(b, 1, 8)))
               /\ lBuf' = SubSeq(b, 9, Len(b))
          /\ (lState.k = "Body" /\ lOut' = lOut) => lState' = lState
          /\ (lState.k = "Body" /\ lOut' # lOut) =>
               /\ Len(b) >= lState.size
               /\ lOut' = Append(lOut, LMsg(lState.log_type,
                                            SubSeq(b, 1, lState.size)))
               /\ lBuf' = SubSeq(b, lState.size + 1, Len(b))
               /\ lState' = SHead]_vars

\* two frames of different tags and payload lengths have been yielded, each
\* as it was sent, and the state is Head
C27_Witness ==
  /\ InLogStream /\ Len(lOut) = 2
  /\ lOut = FrameMsgs(lSrc)
  /\ lOut[1].t # lOut[2].t
  /\ Len(lOut[1].s) > Len(lOut[2].s) /\ lOut[2].s # <<>>
  /\ lState = SHead

\* C28: a turn of the loop that is told the end of the log stream in Head with
\* an empty buffer returns the end of the stream, and the request resolves to
\* Output and not to an error; every frame whose last byte had been received
\* has been yielded by then; and once Logs has returned the end of the stream
\* it yields no frame
C28_CleanEnd ==
  [][/\ (pc = "logs" /\ task = "run" /\ lFused' /\ lWire' = lWire
           /\ lState.k = "Head" /\ lBuf = <<>>) =>
          /\ lRet' = "None" /\ pc' = "done"
          /\ result'.k = "Ok" /\ result'.t = "Output"
          /\ lOut' = lOut
          /\ \A k \in 1..Len(lSrc) :
               FrameEnd(k) <= LogReceived =>
                 (k <= Len(lOut) /\ lOut[k] = FrameMsgs(lSrc)[k])
     /\ lRet = "None" => lOut' = lOut]_vars

\* the stream ended after its first frame was received whole and the second
\* was not sent: Logs yielded the first frame and returned the end
C28_Witness ==
  /\ InLogStream /\ pc = "done" /\ lRet = "None"
  /\ Len(lSrc) = 2 /\ Len(lOut) = 1
  /\ lOut[1] = LMsg("Stderr", <<120>>)
  /\ lState = SHead /\ lBuf = <<>>
  /\ LogReceived = FrameEnd(1)

\* C29: folding an ErrorDetail message, or a stream line that contains "---"
\* and neither starts with sha256 nor contains Step, leaves the extraction
\* state as it was, whatever it was
C29_IgnoredMessages ==
  [][(Len(bmOut') = Len(bmOut) + 1 /\
      LET m == bmOut'[Len(bmOut')]
      IN \/ m.k = "ErrorDetail"
         \/ IsCacheLine(m) /\ ~IsSha(m) /\ ~IsStepLine(m)) =>
       xform' = xform]_vars

\* compiler output, then a cache-hint line, then an ErrorDetail: the state is
\* still Error of the compiler output
C29_Witness ==
  /\ bmOut = <<MStream(OutX), MStream(CacheLine), MErrorDetail>>
  /\ xform = TError(OutX)

\* the text after the first ":" of a line that has one
AfterFirstColon(s) == SubSeq(s, Min(Colons(s)) + 1, Len(s))

\* C30: folding a stream line that starts with sha256 gives, from any state,
\* Id(hash), hash being the text after the first ":" without its trailing
\* whitespace; also for a line with several ":", and for a line with no ":"
\* the fold still gives an Id and does not crash
C30_ShaGivesHash ==
  [][(Len(bmOut') = Len(bmOut) + 1 /\ IsSha(bmOut'[Len(bmOut')])) =>
       LET line == bmOut'[Len(bmOut')].stream
       IN /\ xform'.k = "Id"
          /\ Colons(line) # {} =>
               xform'.s = TrimRight(AfterFirstColon(line))]_vars

\* C31: under the scheduling of SpecLive (the packer finishes, the engine
\* answers, each body delivers its chunks and its end, a task is polled again
\* only when the source that answered NotReady becomes ready), every request
\* that was accepted eventually resolves to Ok or Err
C31_ExecuteResolves ==
  (pc # "idle") ~> (pc = "done" /\ (ops # <<>> => result.k \in {"Ok", "Err"}))

\* C32: BuildMessages::poll returns NotReady only in a call in which the body
\* answered NotReady, so that a wake-up is registered: the task is never
\* parked on a NotReady returned after the call took a chunk or the end of the
\* stream from the body
C32_NoLostWakeup ==
  (pc = "decode" /\ bmRet = "NotReady") => task # "stall"

\* C33: Logs::poll does not return NotReady while a whole frame (a header and
\* the payload bytes it announces) is buffered
C33_NoPendingFrame ==
  (pc = "logs" /\ lRet = "NotReady") => ~HasFrame(lState, lBuf)

\* how many times the request has started the operation name
TimesSent(name) == Cardinality({i \in 1..Len(ops) : ops[i].op = name})

\* C34: a request runs build_tar at most once and sends each of the build,
\* create, start and logs requests at most once, and once it has resolved,
\* with a result or an error, it starts nothing more
C34_AtMostOnce ==
  [][/\ \A name \in {"pack", "build", "create", "start", "logs"} :
          TimesSent(name)' <= 1
     /\ Len(pool.queue') + Cardinality(pool.running')
          + Cardinality(pool.done') <= 1
     /\ Len(ops') >= Len(ops)
     /\ pc = "done" => (ops' = ops /\ pool' = pool /\ pc' = "done")]_vars

\* the request went through all five stages and ended with an error from the
\* log stream
C34_Witness ==
  /\ pc = "done"
  /\ OpNames = Order
  /\ result.k = "Err"

\* C35: once the fold has been in a state Id(_), it is in a state Id(_) after
\* every later message, so the stream does not end in Error or Empty and the
\* request does not resolve to CompileError
C35_IdKindAbsorbing ==
  [][xform.k = "Id" =>
       /\ xform'.k = "Id"
       /\ ~(result'.k = "Ok" /\ result'.t = "CompileError")]_vars

\* the same, for every message but a sha256 line without ":"
C35_ExceptBareSha ==
  [][(xform.k = "Id" /\ Len(bmOut') = Len(bmOut) + 1
       /\ ~(IsSha(bmOut'[Len(bmOut')])
            /\ Colons(bmOut'[Len(bmOut')].stream) = {})) =>
       xform'.k = "Id"]_vars

\* the start and logs requests of task s name the container id that s holds
ContainerIdUsed(s) ==
  /\ Len(s.ops) >= 4 =>
       (s.ops[4].op = "start" /\ s.ops[4].arg = s.id /\ s.id # <<>>)
  /\ Len(s.ops) >= 5 => (s.ops[5].op = "logs" /\ s.ops[5].arg = s.id)

\* C36: the container id of the start request and of the logs request of a
\* request is the Id that the answer to its own create request held: the id
\* is set by the step that takes a 201 answer with a string Id, the start
\* request is sent with it in that step, and no later step of this or of
\* another request changes it
C36_ContainerIdKept ==
  [][/\ ContainerIdUsed(Snapshot') /\ ContainerIdUsed(other')
     /\ cur' = cur =>
          /\ other'.id = other.id
          /\ id' # id =>
               /\ pc = "create" /\ pc' = "start"
               /\ resp' = Resp("create", 201, "IdStr")
               /\ ops' = Append(ops, Op("start", id'))]_vars

\* two requests have each asked for the logs of their own container
C36_Witness ==
  /\ Len(ops) = 5 /\ Len(other.ops) = 5
  /\ ops[5] = Op("logs", <<"c", "2">>)
  /\ other.ops[5] = Op("logs", <<"c", "1">>)
  /\ ops[4].arg = <<"c", "2">> /\ other.ops[4].arg = <<"c", "1">>

\* C37: the create request is sent only by a poll that has seen the end of the
\* build byte stream, after every record of the stream was decoded; a record
\* that cannot be decoded, also after a sha256 line, leaves no create request
C37_CreateAfterBuildEnd ==
  [][(pc = "decode" /\ pc' = "create") =>
       /\ bmFinished'
       /\ Len(bmOut) = Len(bSrc.recs)
       /\ \A i \in 1..Len(bSrc.recs) : bSrc.recs[i].k # "U"]_vars

\* C38: whatever bytes the log body delivers, in whatever chunks, also a header
\* whose tag is none of 0, 1, 2, Logs::poll returns a frame, the end of the
\* stream, NotReady or an error: it does not reach the unreachable!() arm of
\* Header::new
C38_NoUnreachable ==
  pc \in {"logs", "done"} => (lRet # "Panic" /\ result.k # "Panic")

\* the Logs of docker/log.rs has returned an end, an error or a panic
DraftDone == draft.ret \in {"None", "Err", "Panic"}

\* C39: on a body of well-formed frames, in any chunks of one size, followed
\* by its end, the Logs of docker/log.rs and the Logs of executor/log.rs yield
\* the same messages and both return a clean end of the stream
C39_DraftsAgree ==
  /\ (pc = "done" /\ DraftDone) =>
       (draft.out = lOut /\ draft.ret = "None" /\ lRet = "None")
  /\ pc = "done" => Len(draft.out) <= Len(lOut)

====
